---- MODULE Spec2Model ----
(***************************************************************************)
(* Model of scripts/run-tests.js: the runner shim that resolves two        *)
(* directories, builds the child's environment, runs the Python unittest   *)
(* discovery synchronously and exits with the child's status.              *)
(*                                                                         *)
(* A const binding that has not been initialised yet, JavaScript's null    *)
(* and "the process has not exited" are all written None (the empty        *)
(* sequence); a present value v is written Some(v).                        *)
(* A path is the sequence of the segments of an absolute, normalised path: *)
(* << >> is the filesystem root "/".                                       *)
(***************************************************************************)
EXTENDS Integers, Sequences, FiniteSets, TLC

VARIABLES
    pc,          \* the statement the shim is at
    dirname,     \* __dirname: the directory holding run-tests.js
    root,        \* const root   (line 6)
    parent,      \* const parent (line 7)
    env,         \* const env    (line 8): a reference into heap
    heap,        \* the objects alive: object id -> its own properties
    startEnv,    \* process.env as it was at startup (history variable)
    r,           \* const r (line 10): what spawnSync returned
    child,       \* the child process: none, running, exited, signaled, failed
    spawnArgs,   \* the options of each spawnSync call made so far
    exitStatus   \* the shim's own exit status, once it has exited

vars == <<pc, dirname, root, parent, env, heap, startEnv, r, child,
          spawnArgs, exitStatus>>

\* ------------------------------------------------------------------ bounds
MaxDepth == 2
MaxStatus == 3

\* ------------------------------------------------------------ value domain
None == << >>
Some(v) == <<v>>
Get(o) == o[1]

Segments == {"pkg", "scripts"}

RECURSIVE SeqsUpTo(_)
SeqsUpTo(n) ==
    IF n = 0 THEN {<< >>}
    ELSE LET shorter == SeqsUpTo(n - 1)
         IN  shorter \cup {Append(s, c) : s \in shorter, c \in Segments}

\* The directories the script can live in.
ScriptDirs == SeqsUpTo(MaxDepth)

\* Names and values of ambient environment variables.
EnvKeys == {"PYTHONPATH", "HOME"}
EnvValues == {<<"pkg">>, <<"lib">>}

\* Every ambient environment: each key unset, or set to one of the values.
AmbientEnvs ==
    UNION {[ks -> EnvValues] : ks \in SUBSET EnvKeys}

\* The statuses a child can report.
ChildStatuses == 0..MaxStatus

\* ------------------------------------------------------------- path.join
\* path.normalize on an absolute path: a ".." segment removes the segment
\* before it, and is dropped at the filesystem root.
RECURSIVE Normalize(_, _)
Normalize(done, rest) ==
    IF rest = << >> THEN done
    ELSE IF Head(rest) = ".."
         THEN Normalize(IF done = << >> THEN << >>
                        ELSE SubSeq(done, 1, Len(done) - 1), Tail(rest))
         ELSE Normalize(Append(done, Head(rest)), Tail(rest))

PathJoinIdentity(p, segs) == p

\* path.join(p, ...segs)
PathJoin(p, segs) == Normalize(<< >>, p \o segs)

\* ---------------------------------------------------------- object spread
SpreadAmbientWins(src, val) ==
    [k \in DOMAIN src \cup {"PYTHONPATH"} |->
        IF k \in DOMAIN src THEN src[k] ELSE val]

SpreadDropped(src, val) ==
    [k \in {"PYTHONPATH"} |-> val]

\* { ...src, PYTHONPATH: val }: the own properties of src, then PYTHONPATH.
ObjectSpread(src, val) ==
    [k \in DOMAIN src \cup {"PYTHONPATH"} |->
        IF k = "PYTHONPATH" THEN val ELSE src[k]]

EnvAliased(h, val) ==
    [o \in DOMAIN h \cup {"literal"} |-> ObjectSpread(h["process.env"], val)]

\* The object literal of line 8 allocates a fresh object; process.env is
\* only read.
EnvLiteral(h, val) ==
    [o \in DOMAIN h \cup {"literal"} |->
        IF o = "literal" THEN ObjectSpread(h["process.env"], val) ELSE h[o]]

\* ------------------------------------------------------------- spawnSync
\* What spawnSync returns for each way the call can end.
SpawnSyncResult(outcome) ==
    CASE outcome.kind = "exited"   -> [status |-> Some(outcome.code), error |-> FALSE]
      [] outcome.kind = "signaled" -> [status |-> None, error |-> FALSE]
      [] outcome.kind = "failed"   -> [status |-> None, error |-> TRUE]

\* The options object of the call (line 13).
SpawnOptions == [cwd |-> Get(root), env |-> heap[env], stdio |-> "inherit"]

ReturnsAtOnce == "exit"

\* spawnSync does not return while the child it launched runs.
AfterLaunch == "wait"

RetryLaunch == "spawn"

\* A failed launch makes spawnSync return; line 16 is next.
AfterLaunchFailure == "exit"

KeepsWaiting == "wait"

\* The child's termination makes spawnSync return; line 16 is next.
AfterTermination == "exit"

\* ------------------------------------------------------------ process.exit
ExitCodeCollapsed(res) ==
    IF res.status # None THEN (IF Get(res.status) = 0 THEN 0 ELSE 1) ELSE 1

ExitCodeErrorIgnored(res) ==
    IF res.error THEN 0 ELSE IF res.status # None THEN Get(res.status) ELSE 1

ExitCodeFallbackZero(res) ==
    IF res.status # None THEN Get(res.status) ELSE 0

\* r.status !== null ? r.status : 1
ExitCode(res) ==
    IF res.status # None THEN Get(res.status) ELSE 1

\* ------------------------------------------------------------------- Init
Init ==
    /\ pc = "root"
    /\ dirname \in ScriptDirs
    /\ root = None
    /\ parent = None
    /\ env = "undefined"
    /\ \E ambient \in AmbientEnvs :
          /\ heap = [o \in {"process.env"} |-> ambient]
          /\ startEnv = ambient
    /\ r = None
    /\ child = "none"
    /\ spawnArgs = << >>
    /\ exitStatus = None

\* ---------------------------------------------------------------- actions
\* line 6
ComputeRoot ==
    /\ pc = "root"
    /\ root' = Some(PathJoin(dirname, <<"..">>))
    /\ pc' = "parent"
    /\ UNCHANGED <<dirname, parent, env, heap, startEnv, r, child,
                   spawnArgs, exitStatus>>

\* line 7
ComputeParent ==
    /\ pc = "parent"
    /\ parent' = Some(PathJoin(Get(root), <<"..">>))
    /\ pc' = "env"
    /\ UNCHANGED <<dirname, root, env, heap, startEnv, r, child,
                   spawnArgs, exitStatus>>

\* line 8
BuildEnv ==
    /\ pc = "env"
    /\ heap' = EnvLiteral(heap, Get(parent))
    /\ env' = "literal"
    /\ pc' = "spawn"
    /\ UNCHANGED <<dirname, root, parent, startEnv, r, child,
                   spawnArgs, exitStatus>>

\* lines 10-14, the launch succeeds: the shim blocks inside spawnSync.
SpawnLaunched ==
    /\ pc = "spawn"
    /\ spawnArgs' = Append(spawnArgs, SpawnOptions)
    /\ child' = "running"
    /\ pc' = AfterLaunch
    /\ UNCHANGED <<dirname, root, parent, env, heap, startEnv, r, exitStatus>>

\* lines 10-14, the launch fails (python not found, ...): spawnSync returns
\* with the error recorded and no status.
SpawnFailed ==
    /\ pc = "spawn"
    /\ spawnArgs' = Append(spawnArgs, SpawnOptions)
    /\ child' = "failed"
    /\ r' = Some(SpawnSyncResult([kind |-> "failed"]))
    /\ pc' = AfterLaunchFailure
    /\ UNCHANGED <<dirname, root, parent, env, heap, startEnv, exitStatus>>

\* The child ends with a status; spawnSync returns it.
ChildExits ==
    /\ pc = "wait"
    /\ child = "running"
    /\ \E n \in ChildStatuses :
          r' = Some(SpawnSyncResult([kind |-> "exited", code |-> n]))
    /\ child' = "exited"
    /\ pc' = AfterTermination
    /\ UNCHANGED <<dirname, root, parent, env, heap, startEnv, spawnArgs,
                   exitStatus>>

\* The child is killed by a signal; spawnSync returns a null status.
ChildSignaled ==
    /\ pc = "wait"
    /\ child = "running"
    /\ r' = Some(SpawnSyncResult([kind |-> "signaled"]))
    /\ child' = "signaled"
    /\ pc' = AfterTermination
    /\ UNCHANGED <<dirname, root, parent, env, heap, startEnv, spawnArgs,
                   exitStatus>>

\* line 16
Exit ==
    /\ pc = "exit"
    /\ exitStatus' = Some(ExitCode(Get(r)))
    /\ pc' = "done"
    /\ UNCHANGED <<dirname, root, parent, env, heap, startEnv, r, child,
                   spawnArgs>>

Next ==
    \/ ComputeRoot
    \/ ComputeParent
    \/ BuildEnv
    \/ SpawnLaunched
    \/ SpawnFailed
    \/ ChildExits
    \/ ChildSignaled
    \/ Exit

Spec == Init /\ [][Next]_vars

\* The shim's own statements always get to run; nothing makes the child end.
ShimStep ==
    ComputeRoot \/ ComputeParent \/ BuildEnv \/ SpawnLaunched \/ SpawnFailed
    \/ Exit

FairSpec == Spec /\ WF_vars(ShimStep)

\* ------------------------------------------------------------- vocabulary
Spawned == Len(spawnArgs) > 0
Exited == pc = "done"
Settled == {"exited", "signaled", "failed"}

\* p is the directory one level above d; the root directory is its own
\* parent.
IsParentOf(p, d) ==
    \/ d = << >> /\ p = << >>
    \/ \E c \in Segments : d = Append(p, c)

\* ------------------------------------------------------------------ claims
\* C1: when the child terminates reporting status N, the shim's own exit
\* status is exactly N, for N = 0 and for every N # 0.
C1_StatusPropagated ==
    (Exited /\ child = "exited") =>
        \E n \in ChildStatuses :
            /\ Get(r).status = Some(n)
            /\ exitStatus = Some(n)

C1_Witness ==
    Exited /\ child = "exited" /\ Get(r).status = Some(2)
           /\ exitStatus = Some(2)

\* C2: when the subprocess cannot be launched, the shim's exit status is 1,
\* never 0.
C2_LaunchFailureExitsOne ==
    (Exited /\ child = "failed") => exitStatus = Some(1)

C2_Witness ==
    Exited /\ child = "failed" /\ Get(r).error

\* C3: when the child was started and no status is obtainable for it (it was
\* killed by a signal), the shim exits with status 1.
C3_NullStatusExitsOne ==
    (Exited /\ child = "signaled") =>
        (Get(r).status = None /\ exitStatus = Some(1))

C3_Witness ==
    Exited /\ child = "signaled" /\ ~Get(r).error

\* C4: whatever the ambient environment holds for PYTHONPATH, the environment
\* passed to the child has PYTHONPATH equal to the parent of the root
\* directory: the ambient value is overridden.
C4_PythonPathOverridden ==
    \A i \in 1..Len(spawnArgs) :
        /\ "PYTHONPATH" \in DOMAIN spawnArgs[i].env
        /\ IsParentOf(spawnArgs[i].env["PYTHONPATH"], spawnArgs[i].cwd)
        /\ spawnArgs[i].env["PYTHONPATH"] = Get(parent)

C4_Witness ==
    /\ Spawned
    /\ "PYTHONPATH" \in DOMAIN startEnv
    /\ startEnv["PYTHONPATH"] # Get(parent)

\* C5: process.env is the same mapping at every moment up to the shim's exit
\* as it was at startup.
C5_AmbientUnchanged ==
    heap["process.env"] = startEnv

C5_Witness ==
    /\ Exited
    /\ "PYTHONPATH" \notin DOMAIN startEnv
    /\ "PYTHONPATH" \in DOMAIN heap[env]

\* C6 as stated: the root, which is the child's working directory, is the
\* directory holding the script, and PYTHONPATH is one level above it.
C6_RootIsScriptDir ==
    Spawned =>
        /\ Get(root) = dirname
        /\ spawnArgs[1].cwd = dirname
        /\ IsParentOf(spawnArgs[1].env["PYTHONPATH"], dirname)

\* C6 as amended: the root, which is the child's working directory, is the
\* directory one level above the directory holding the script, and
\* PYTHONPATH is one level above the root.
C6_RootIsAboveScriptDir ==
    Spawned =>
        /\ IsParentOf(Get(root), dirname)
        /\ spawnArgs[1].cwd = Get(root)
        /\ IsParentOf(spawnArgs[1].env["PYTHONPATH"], Get(root))

C6_Witness ==
    Spawned /\ Len(dirname) = 2 /\ Len(spawnArgs[1].cwd) = 1
            /\ spawnArgs[1].env["PYTHONPATH"] = << >>

\* C7: every ambient variable other than PYTHONPATH reaches the child with
\* its value, and the child's environment has no key from anywhere else.
C7_AmbientPassedThrough ==
    \A i \in 1..Len(spawnArgs) :
        LET e == spawnArgs[i].env
            ambient == heap["process.env"]
        IN  /\ \A k \in DOMAIN ambient \ {"PYTHONPATH"} :
                  k \in DOMAIN e /\ e[k] = ambient[k]
            /\ DOMAIN e \subseteq DOMAIN ambient \cup {"PYTHONPATH"}

C7_Witness ==
    Spawned /\ "HOME" \in DOMAIN startEnv /\ "HOME" \in DOMAIN spawnArgs[1].env

\* C8: a run makes one subprocess invocation whatever its outcome, and ends
\* in one outcome, its exit status.
C8_SingleInvocation ==
    /\ Len(spawnArgs) <= 1
    /\ (child # "none" <=> Len(spawnArgs) = 1)
    /\ (Exited <=> exitStatus # None)
    /\ (Exited => Len(spawnArgs) = 1)

C8_Witness ==
    Exited /\ Len(spawnArgs) = 1 /\ child \in {"failed", "signaled"}

\* C9: the child's environment is complete before the child is spawned, and
\* spawnSync does not return, nor the shim exit, while the child runs.
C9_BuiltThenSpawnedThenExited ==
    /\ (Spawned => (env = "literal" /\ spawnArgs[1].env = heap[env]
                    /\ "PYTHONPATH" \in DOMAIN heap[env]))
    /\ (pc \in {"exit", "done"} => child \in Settled)
    /\ (exitStatus # None => child \in Settled)

C9_Witness ==
    Exited /\ child = "exited" /\ exitStatus = Some(0)

\* C10: once the child has terminated or failed to launch, the shim
\* eventually exits with a status; and the wait on a running child ends only
\* by the child's termination.
C10_ExitFollowsChild ==
    /\ (child \in Settled) ~> (exitStatus # None)
    /\ [][(pc = "wait" /\ pc' # "wait") => child' \in {"exited", "signaled"}]_vars

C10_Witness ==
    pc = "exit" /\ child \in Settled /\ exitStatus = None

====
